---------------------------- MODULE Spec2Model ----------------------------
(***************************************************************************)
(* AImmit: a model of the core pieces of internal/ai and of a run of main  *)
(*   - callLlamaCpp      the process backend (child process, the goroutine *)
(*                       draining its standard output, the deadline)       *)
(*   - buildDiffPrompt   the diff-to-prompt compaction                     *)
(*   - parseCommitMessage the extraction of the JSON object                *)
(*   - generateCommitMessage  the run: diff, prompt, backend, extraction,  *)
(*                       formatting, git commit                            *)
(* Strings are modelled by what the code does with them: a line of the     *)
(* child is its position in the child's output, a piece of the raw diff is *)
(* a byte range [lo, hi) of it, a response is a sequence of lexical        *)
(* tokens.  len() is Go's len(): bytes.                                    *)
(***************************************************************************)
EXTENDS Integers, Sequences, FiniteSets, TLC

VARIABLES
    \* ---- callLlamaCpp ----
    script,      \* what the child writes: a sequence of "text" / "stop" lines
    mode,        \* what the child does after its last line: exit0, exit1, hang
    emitted,     \* lines the child has written to the pipe
    child,       \* "running" | "exited"
    childEnd,    \* how the child ended: none, exit0, exit1, sentinelKill, ctxKill
    buffered,    \* lines the scanner has read from the pipe into its buffer
    scanned,     \* lines scanner.Scan() has returned
    cur,         \* the goroutine's current line (scanner.Text())
    pipeClosed,  \* cmd.Wait closed the read end of the pipe
    dpc,         \* the drain goroutine's position
    builder,     \* outputBuilder: the lines appended, in order
    ctx,         \* "live" | "deadline" | "canceled"
    mpc,         \* the invoking thread's position
    waitErr,     \* err of cmd.Wait() is non-nil
    retErr,      \* "none" | "nil" | "timeout"
    retText,     \* the text returned
    readDpc,     \* the goroutine's position when outputBuilder.String() ran
    \* ---- buildDiffPrompt ----
    budget,      \* maxDiffLength of the variant
    diff,        \* the raw diff: [pre, segs]
    ppc,         \* "start" | "built"
    prompt,      \* the pieces written to sb, in order
    quotaPerFile,
    iters,       \* the iterations of the loop over fileDiffs, in order
    \* ---- parseCommitMessage ----
    response,    \* the model's answer: a sequence of tokens
    rpc,         \* "start" | "parsed"
    parsed,      \* the outcome of parseCommitMessage
    \* ---- generateCommitMessage (main) and GenerateCommitMessage ----
    opc,         \* the position of the run
    variant,     \* the backend of the build: "proc" (llama.cpp) | "http" (Ollama)
    onlyPrompt,  \* the --only-prompt flag
    autoCommit,  \* the --auto-commit flag
    format,      \* the --format flag
    files,       \* len(diffInfo.Files)
    body,        \* the answer of the Ollama server
    callRet,     \* what the backend call returned: [text, err]
    genRet,      \* what GenerateCommitMessage returned: [kind, err]
    invoked,     \* the components called so far
    exit         \* who ended the process, and with which status

procVars   == <<script, mode, emitted, child, childEnd, buffered, scanned, cur,
                pipeClosed, dpc, builder, ctx, mpc, waitErr, retErr, retText,
                readDpc>>
promptVars == <<budget, diff, ppc, prompt, quotaPerFile, iters>>
parseVars  == <<response, rpc, parsed>>
runVars    == <<opc, variant, onlyPrompt, autoCommit, format, files, body,
                callRet, genRet, invoked, exit>>
vars       == <<procVars, promptVars, parseVars, runVars>>

--------------------------------------------------------------------------
(* Bounds of the model                                                     *)

\* the child writes at most this many lines
MaxLines == 3

--------------------------------------------------------------------------
(* Small helpers                                                           *)

Min(a, b) == IF a < b THEN a ELSE b

Max(a, b) == IF a > b THEN a ELSE b

Last(s) == s[Len(s)]

\* <<1, 2, ..., n>>
UpTo(n) == [i \in 1..n |-> i]

--------------------------------------------------------------------------
(* callLlamaCpp: the child, the pipe, the drain goroutine, the deadline    *)

Scripts == UNION {[1..n -> {"text", "stop"}] : n \in 0..MaxLines}

Modes == {"exit0", "exit1", "hang"}

\* strings.Contains(line, stopMarker)
IsStop(i) == script[i] = "stop"

\* A value of outputBuilder.String() that is none of the builder's contents:
\* the slice header of strings.Builder read while WriteString stores it.
TornText == <<0>>

ProcInit ==
    /\ script \in Scripts
    /\ mode \in Modes
    /\ emitted = 0
    /\ child = "running"
    /\ childEnd = "none"
    /\ buffered = 0
    /\ scanned = 0
    /\ cur = 0
    /\ pipeClosed = FALSE
    /\ dpc = "scan"
    /\ builder = <<>>
    /\ ctx = "live"
    /\ mpc = "wait"
    /\ waitErr = FALSE
    /\ retErr = "none"
    /\ retText = <<>>
    /\ readDpc = "none"

ProcIdle ==
    /\ script = <<>>
    /\ mode = "exit0"
    /\ emitted = 0
    /\ child = "exited"
    /\ childEnd = "none"
    /\ buffered = 0
    /\ scanned = 0
    /\ cur = 0
    /\ pipeClosed = FALSE
    /\ dpc = "done"
    /\ builder = <<>>
    /\ ctx = "live"
    /\ mpc = "idle"
    /\ waitErr = FALSE
    /\ retErr = "none"
    /\ retText = <<>>
    /\ readDpc = "none"

\* the child writes its next line to standard output
ChildEmit ==
    /\ UNCHANGED <<promptVars, parseVars, runVars>>
    /\ child = "running"
    /\ emitted < Len(script)
    /\ emitted' = emitted + 1
    /\ UNCHANGED <<script, mode, child, childEnd, buffered, scanned, cur,
                   pipeClosed, dpc, builder, ctx, mpc, waitErr, retErr,
                   retText, readDpc>>

\* the child exits on its own after its last line
ChildExit ==
    /\ UNCHANGED <<promptVars, parseVars, runVars>>
    /\ child = "running"
    /\ emitted = Len(script)
    /\ mode # "hang"
    /\ child' = "exited"
    /\ childEnd' = mode
    /\ UNCHANGED <<script, mode, emitted, buffered, scanned, cur, pipeClosed,
                   dpc, builder, ctx, mpc, waitErr, retErr, retText, readDpc>>

\* the deadline of context.WithTimeout passes
DeadlineFires ==
    /\ UNCHANGED <<promptVars, parseVars, runVars>>
    /\ ctx = "live"
    /\ mpc # "returned"
    /\ ctx' = "deadline"
    /\ UNCHANGED <<script, mode, emitted, child, childEnd, buffered, scanned,
                   cur, pipeClosed, dpc, builder, mpc, waitErr, retErr,
                   retText, readDpc>>

\* exec.CommandContext: the context is done, the child is killed
CtxKill ==
    /\ UNCHANGED <<promptVars, parseVars, runVars>>
    /\ ctx # "live"
    /\ child = "running"
    /\ child' = "exited"
    /\ childEnd' = "ctxKill"
    /\ UNCHANGED <<script, mode, emitted, buffered, scanned, cur, pipeClosed,
                   dpc, builder, ctx, mpc, waitErr, retErr, retText, readDpc>>

\* scanner.Scan(): the next line, from the scanner's buffer or from the pipe;
\* false at end of stream or when the read end was closed.
DrainScan ==
    /\ UNCHANGED <<promptVars, parseVars, runVars>>
    /\ dpc = "scan"
    /\ \/ /\ scanned < buffered
          /\ scanned' = scanned + 1
          /\ cur' = scanned + 1
          /\ dpc' = "select"
          /\ UNCHANGED buffered
       \/ /\ scanned = buffered
          /\ ~pipeClosed
          /\ buffered < emitted
          /\ \E k \in 1..(emitted - buffered) : buffered' = buffered + k
          /\ scanned' = scanned + 1
          /\ cur' = scanned + 1
          /\ dpc' = "select"
       \/ /\ scanned = buffered
          /\ \/ pipeClosed
             \/ buffered = emitted /\ child = "exited"
          /\ dpc' = "done"
          /\ UNCHANGED <<buffered, scanned, cur>>
    /\ UNCHANGED <<script, mode, emitted, child, childEnd, pipeClosed, builder,
                   ctx, mpc, waitErr, retErr, retText, readDpc>>

\* select { case <-ctx.Done(): return; default: ... }
DrainSelect ==
    /\ UNCHANGED <<promptVars, parseVars, runVars>>
    /\ dpc = "select"
    /\ dpc' = IF ctx # "live" THEN "done" ELSE "writing"
    /\ UNCHANGED <<script, mode, emitted, child, childEnd, buffered, scanned,
                   cur, pipeClosed, builder, ctx, mpc, waitErr, retErr,
                   retText, readDpc>>

\* outputBuilder.WriteString(line + "\n") completes
DrainWrite ==
    /\ UNCHANGED <<promptVars, parseVars, runVars>>
    /\ dpc = "writing"
    /\ builder' = Append(builder, cur)
    /\ dpc' = "check"
    /\ UNCHANGED <<script, mode, emitted, child, childEnd, buffered, scanned,
                   cur, pipeClosed, ctx, mpc, waitErr, retErr, retText,
                   readDpc>>

\* what the goroutine does after a line that holds the stop marker
AfterStop == "done"

\* if strings.Contains(line, stopMarker) { cmd.Process.Kill(); return }
DrainCheck ==
    /\ UNCHANGED <<promptVars, parseVars, runVars>>
    /\ dpc = "check"
    /\ IF IsStop(cur)
       THEN /\ dpc' = AfterStop
            /\ IF child = "running"
               THEN child' = "exited" /\ childEnd' = "sentinelKill"
               ELSE UNCHANGED <<child, childEnd>>
       ELSE /\ dpc' = "scan"
            /\ UNCHANGED <<child, childEnd>>
    /\ UNCHANGED <<script, mode, emitted, buffered, scanned, cur, pipeClosed,
                   builder, ctx, mpc, waitErr, retErr, retText, readDpc>>

\* err = cmd.Wait(): returns once the child has exited, and closes the pipe
MainWait ==
    /\ UNCHANGED <<promptVars, parseVars, runVars>>
    /\ mpc = "wait"
    /\ child = "exited"
    /\ pipeClosed' = TRUE
    /\ waitErr' = (childEnd # "exit0")
    /\ mpc' = "check"
    /\ UNCHANGED <<script, mode, emitted, child, childEnd, buffered, scanned,
                   cur, dpc, builder, ctx, retErr, retText, readDpc>>

\* if err != nil && ctx.Err() == context.DeadlineExceeded
MainCheck ==
    /\ UNCHANGED <<promptVars, parseVars, runVars>>
    /\ mpc = "check"
    /\ retErr' = IF waitErr /\ ctx = "deadline" THEN "timeout" ELSE "nil"
    /\ mpc' = "read"
    /\ UNCHANGED <<script, mode, emitted, child, childEnd, buffered, scanned,
                   cur, pipeClosed, dpc, builder, ctx, waitErr, retText,
                   readDpc>>

\* The values outputBuilder.String() can give: the builder's content, and,
\* while the goroutine is inside WriteString, also the content with the line
\* being written or a torn slice header.
BuilderString ==
    IF dpc = "writing"
    THEN {builder, Append(builder, cur), TornText}
    ELSE {builder}

\* return outputBuilder.String(), err   (and the deferred cancel())
MainRead ==
    /\ UNCHANGED <<promptVars, parseVars, runVars>>
    /\ mpc = "read"
    /\ retText' \in BuilderString
    /\ readDpc' = dpc
    /\ ctx' = IF ctx = "live" THEN "canceled" ELSE ctx
    /\ mpc' = "returned"
    /\ UNCHANGED <<script, mode, emitted, child, childEnd, buffered, scanned,
                   cur, pipeClosed, dpc, builder, waitErr, retErr>>

--------------------------------------------------------------------------
(* buildDiffPrompt and its helpers                                         *)
(* The raw diff is [pre, segs]: pre bytes before the first "diff --git",   *)
(* then one block per occurrence of "diff --git", segs[i] bytes long with  *)
(* the marker.  A piece of text is the byte range [lo, hi) of the raw diff.*)

\* the most blocks a diff of the model has
MaxSegs == 12

\* const maxDiffLength of the process variant / of the HTTP variant
MaxDiffLengthProc == 3000

MaxDiffLengthHTTP == 6000

\* len("diff --git")
SepLen == 10

\* if quotaPerFile < 500 { quotaPerFile = 500 }
MinQuota == 500

\* if availableChars < 300
MinAvailable == 300

\* tailLength := availableChars - headLength - 20
EllipsisReserve == 20

\* totalUsed += min(len(fileDiff), availableChars) + 100
FileOverhead == 100

\* if i >= 10
MaxFiles == 10

\* len("\n... (内容过长已截断) ...\n"): 12 ASCII bytes and 7 three-byte characters
MarkerLen == 33

SegLens == {10, 100, 250, 500, 1000, 2900, 3000, 3001, 4000, 6000, 6001, 7000}

PreLens == {0, 7, 3500}

\* blocks: k of length a, then n - k of length b
DiffInputs ==
    {[pre |-> p, segs |-> [i \in 1..n |-> IF i <= k THEN a ELSE b]] :
        p \in PreLens, n \in 0..MaxSegs, k \in 0..MaxSegs, a \in SegLens,
        b \in SegLens}

RECURSIVE SumSeq(_)
SumSeq(s) == IF s = <<>> THEN 0 ELSE s[1] + SumSeq(Tail(s))

\* len(diffInfo.RawDiff)
RawLen(d) == d.pre + SumSeq(d.segs)

\* where block i starts in the raw diff
SegStart(d, i) == d.pre + SumSeq(SubSeq(d.segs, 1, i - 1))

Range(lo, hi) == [lo |-> lo, hi |-> hi]

RangeLen(r) == r.hi - r.lo

\* strings.Split(rawDiff, "diff --git"): the text before the first marker,
\* then the text after each marker
Split(d) ==
    <<Range(0, d.pre)>> \o
    [i \in 1..Len(d.segs) |->
        Range(SegStart(d, i) + SepLen, SegStart(d, i) + d.segs[i])]

\* if i == 0 && len(part) == 0 { continue }
SkipPart(i, part) == i = 0 /\ RangeLen(part) = 0

RECURSIVE SplitFrom(_, _)
SplitFrom(parts, i) ==
    IF i >= Len(parts)
    THEN <<>>
    ELSE LET part == parts[i + 1]
             \* part = "diff --git" + part
             whole == IF i > 0 THEN Range(part.lo - SepLen, part.hi) ELSE part
         IN  (IF SkipPart(i, part) THEN <<>> ELSE <<whole>>)
                \o SplitFrom(parts, i + 1)

splitDiffByFile(d) == SplitFrom(Split(d), 0)

\* One piece written to sb.  k is the kind; "text" is the bytes [lo, hi) of
\* the raw diff; "file" is the header of the section of the segment
\* [lo, hi), and avail records availableChars of that iteration.
Tok(k, lo, hi, avail) == [k |-> k, lo |-> lo, hi |-> hi, avail |-> avail]

Lit(k) == Tok(k, 0, 0, 0)

Text(lo, hi) == Tok("text", lo, hi, 0)

\* a strict comparison in place of <=
FitsBudgetStrict(len, B) == len < B

\* if len(diffInfo.RawDiff) <= maxDiffLength
FitsBudget(len, B) == len <= B

\* the quota without its floor of 500
QuotaNoFloor(B, n) == B \div n

\* quotaPerFile := maxDiffLength / len(fileDiffs), at least 500
QuotaPerFile(B, n) == IF B \div n < MinQuota THEN MinQuota ELSE B \div n

\* availableChars * (2 / 3): the integer quotient 2 / 3 is 0
HeadLengthQuotientFirst(avail) == avail * (2 \div 3)

\* headLength := availableChars * 2 / 3
HeadLength(avail) == (avail * 2) \div 3

\* tailLength := availableChars - headLength - 20
TailLength(avail, head) == avail - head - EllipsisReserve

\* the quota whatever is left of the budget
AvailableCharsUncapped(totalUsed, quota, B) == quota

\* availableChars := quotaPerFile, or what is left of the budget when the
\* quota does not fit
AvailableChars(totalUsed, quota, B) ==
    IF totalUsed + quota > B THEN B - totalUsed ELSE quota

\* the body of one iteration from the file header to the closing fence
FileSection(fd, avail) ==
    LET len  == RangeLen(fd)
        head == HeadLength(avail)
        tail == TailLength(avail, head)
    IN  <<Tok("file", fd.lo, fd.hi, avail)>> \o
        (IF len > avail
         THEN IF head > 0 /\ tail > 0
              THEN <<Text(fd.lo, fd.lo + head), Lit("marker")>> \o
                   (IF len > len - tail
                    THEN <<Text(fd.hi - tail, fd.hi)>>
                    ELSE <<>>)
              ELSE <<Text(fd.lo, fd.lo + avail), Lit("marker")>>
         ELSE <<Text(fd.lo, fd.hi)>>) \o
        <<Lit("fence")>>

\* for i, fileDiff := range fileDiffs { ... }, from index i (0-based) on
RECURSIVE FileLoop(_, _, _, _, _)
FileLoop(fds, i, totalUsed, quota, B) ==
    IF i >= Len(fds)
    THEN <<>>
    ELSE IF i >= MaxFiles
    THEN <<Lit("omitted")>>
    ELSE LET capped == totalUsed + quota > B
             avail  == AvailableChars(totalUsed, quota, B)
         IN  IF capped /\ avail < MinAvailable
             THEN <<Lit("omitted")>>
             ELSE LET fd   == fds[i + 1]
                      used == totalUsed + Min(RangeLen(fd), avail)
                                + FileOverhead
                  IN  FileSection(fd, avail) \o
                      (IF used >= B
                       THEN <<Lit("omitted")>>
                       ELSE FileLoop(fds, i + 1, used, quota, B))

\* One iteration of the loop: its index, totalUsed and availableChars when
\* it runs, its segment, headLength and tailLength, the branch it takes
\* ("whole", "headTail", "headOnly", or a break before the section:
\* "tenFiles", "tooSmall"), and whether it ends with the notice and a break.
Iter(i, totalUsed, avail, fd, branch, notice) ==
    [i |-> i, totalUsed |-> totalUsed, avail |-> avail, fd |-> fd,
     head |-> HeadLength(avail), tail |-> TailLength(avail, HeadLength(avail)),
     branch |-> branch, notice |-> notice]

\* for i, fileDiff := range fileDiffs, as the iterations it runs
RECURSIVE FileLoopIters(_, _, _, _, _)
FileLoopIters(fds, i, totalUsed, quota, B) ==
    IF i >= Len(fds)
    THEN <<>>
    ELSE IF i >= MaxFiles
    THEN <<Iter(i, totalUsed, 0, fds[i + 1], "tenFiles", TRUE)>>
    ELSE LET capped == totalUsed + quota > B
             avail  == AvailableChars(totalUsed, quota, B)
             fd     == fds[i + 1]
         IN  IF capped /\ avail < MinAvailable
             THEN <<Iter(i, totalUsed, avail, fd, "tooSmall", TRUE)>>
             ELSE LET head   == HeadLength(avail)
                      tail   == TailLength(avail, head)
                      branch == IF RangeLen(fd) > avail
                                THEN IF head > 0 /\ tail > 0
                                     THEN "headTail" ELSE "headOnly"
                                ELSE "whole"
                      used   == totalUsed + Min(RangeLen(fd), avail)
                                  + FileOverhead
                  IN  <<Iter(i, totalUsed, avail, fd, branch, used >= B)>> \o
                      (IF used >= B
                       THEN <<>>
                       ELSE FileLoopIters(fds, i + 1, used, quota, B))

buildDiffPrompt(d, B) ==
    <<Lit("intro")>> \o
    (IF FitsBudget(RawLen(d), B)
     THEN <<Lit("fullOpen"), Text(0, RawLen(d)), Lit("fence")>>
     ELSE LET fds == splitDiffByFile(d)
          IN  <<Lit("summaryOpen")>> \o
              FileLoop(fds, 0, 0, QuotaPerFile(B, Len(fds)), B)) \o
    <<Lit("schema")>>

PromptInit ==
    /\ budget \in {MaxDiffLengthProc, MaxDiffLengthHTTP}
    /\ diff \in DiffInputs
    /\ ppc = "start"
    /\ prompt = <<>>
    /\ quotaPerFile = 0
    /\ iters = <<>>

PromptIdle ==
    /\ budget = MaxDiffLengthProc
    /\ diff = [pre |-> 0, segs |-> <<>>]
    /\ ppc = "idle"
    /\ prompt = <<>>
    /\ quotaPerFile = 0
    /\ iters = <<>>

\* prompt := buildDiffPrompt(diffInfo)
BuildDiffPrompt ==
    /\ UNCHANGED <<procVars, parseVars, runVars>>
    /\ ppc = "start"
    /\ prompt' = buildDiffPrompt(diff, budget)
    /\ quotaPerFile' = IF FitsBudget(RawLen(diff), budget)
                       THEN 0
                       ELSE QuotaPerFile(budget, Len(splitDiffByFile(diff)))
    /\ iters' = IF FitsBudget(RawLen(diff), budget)
                THEN <<>>
                ELSE LET fds == splitDiffByFile(diff)
                     IN  FileLoopIters(fds, 0, 0,
                                       QuotaPerFile(budget, Len(fds)), budget)
    /\ ppc' = "built"
    /\ UNCHANGED <<budget, diff>>

--------------------------------------------------------------------------
(* parseCommitMessage                                                      *)
(* A response is a sequence of tokens: "{", "}", ",", other text ("w") and *)
(* "key": value pairs.  A string value may itself hold braces.  The byte   *)
(* position of a brace of token i is 2i for "{" and 2i + 1 for "}", which  *)
(* keeps the order of the bytes.                                           *)

\* the most tokens a response of the model has
MaxResp == 5

JTok(t, key, val, kind) == [t |-> t, key |-> key, val |-> val, kind |-> kind]

LB == JTok("{", "", "", "")

RB == JTok("}", "", "", "")

Comma == JTok(",", "", "", "")

Noise == JTok("w", "", "", "")

Pair(key, val, kind) == JTok("pair", key, val, kind)

Alphabet ==
    {LB, RB, Comma, Noise,
     Pair("type", "feat", "string"), Pair("subject", "x", "string"),
     Pair("scope", "s", "string"),
     Pair("body", "{b}", "string"),
     Pair("breaking_changes", "true", "bool"),
     Pair("subject", "7", "number")}

Responses == UNION {[1..n -> Alphabet] : n \in 0..MaxResp}

\* the token holds the byte "{" / the byte "}"
HasOpen(tok) == tok.t = "{" \/ (tok.t = "pair" /\ tok.val = "{b}")

HasClose(tok) == tok.t = "}" \/ (tok.t = "pair" /\ tok.val = "{b}")

\* strings.Index(response, "{")
IndexOpen(resp) ==
    LET S == {i \in 1..Len(resp) : HasOpen(resp[i])}
    IN  IF S = {} THEN -1
        ELSE 2 * (CHOOSE i \in S : \A j \in S : i <= j)

\* strings.Index in place of strings.LastIndex: the first "}"
FirstIndexClose(resp) ==
    LET S == {i \in 1..Len(resp) : HasClose(resp[i])}
    IN  IF S = {} THEN -1
        ELSE 2 * (CHOOSE i \in S : \A j \in S : i <= j) + 1

\* strings.LastIndex(response, "}")
LastIndexClose(resp) ==
    LET S == {i \in 1..Len(resp) : HasClose(resp[i])}
    IN  IF S = {} THEN -1
        ELSE 2 * (CHOOSE i \in S : \A j \in S : i >= j) + 1

\* the zero value of CommitMessage
ZeroMessage ==
    [Subject |-> "", Body |-> "", Type |-> "", Scope |-> "",
     BreakingChanges |-> FALSE, RawDiff |-> <<>>]

\* the struct field a JSON key decodes into, and the JSON kind it takes
FieldOf(key) ==
    CASE key = "subject" -> "Subject"
      [] key = "body" -> "Body"
      [] key = "type" -> "Type"
      [] key = "scope" -> "Scope"
      [] key = "breaking_changes" -> "BreakingChanges"
      [] OTHER -> ""

KindOf(key) == IF key = "breaking_changes" THEN "bool" ELSE "string"

\* the members of the object in order: each decoded into its field
RECURSIVE DecodeMembers(_, _)
DecodeMembers(msg, members) ==
    IF members = <<>>
    THEN msg
    ELSE LET m == members[1]
             f == FieldOf(m.key)
             v == IF f = "BreakingChanges" THEN m.val = "true" ELSE m.val
         IN  DecodeMembers(IF f = "" THEN msg ELSE [msg EXCEPT ![f] = v],
                           Tail(members))

\* the object's syntax: "{", members separated by ",", "}"
IsObject(toks) ==
    /\ Len(toks) >= 2
    /\ toks[1] = LB
    /\ toks[Len(toks)] = RB
    /\ LET inner == SubSeq(toks, 2, Len(toks) - 1)
       IN  \/ inner = <<>>
           \/ /\ Len(inner) % 2 = 1
              /\ \A i \in 1..Len(inner) :
                    IF i % 2 = 1 THEN inner[i].t = "pair"
                                 ELSE inner[i] = Comma

\* json.Unmarshal([]byte(jsonStr), &commitMsg): the decoded message, or an
\* error for a syntax error or a value of the wrong JSON kind
Unmarshal(toks) ==
    IF ~IsObject(toks)
    THEN [err |-> TRUE, msg |-> ZeroMessage]
    ELSE LET inner   == SubSeq(toks, 2, Len(toks) - 1)
             members == [i \in 1..((Len(inner) + 1) \div 2) |-> inner[2 * i - 1]]
             badKind == \E i \in 1..Len(members) :
                            /\ FieldOf(members[i].key) # ""
                            /\ members[i].kind # KindOf(members[i].key)
         IN  [err |-> badKind, msg |-> DecodeMembers(ZeroMessage, members)]

\* response[jsonStart : jsonEnd+1]; a cut inside a token leaves no token
JsonStr(resp, jsonStart, jsonEnd) ==
    LET first == jsonStart \div 2
        last  == jsonEnd \div 2
        cut(i) == IF (i = first /\ resp[i].t # "{") \/ (i = last /\ resp[i].t # "}")
                  THEN Noise ELSE resp[i]
    IN  [i \in 1..(last - first + 1) |-> cut(first + i - 1)]

parseCommitMessage(resp, rawDiff) ==
    LET jsonStart == IndexOpen(resp)
        jsonEnd   == LastIndexClose(resp)
    IN  IF jsonStart = -1 \/ jsonEnd = -1 \/ jsonEnd <= jsonStart
        THEN [status |-> "panic", msg |-> ZeroMessage]
        ELSE LET r == Unmarshal(JsonStr(resp, jsonStart, jsonEnd))
             IN  IF r.err
                 THEN [status |-> "panic", msg |-> ZeroMessage]
                 ELSE [status |-> "ok",
                       msg |-> [r.msg EXCEPT !.RawDiff = rawDiff]]

ParseInit ==
    /\ response \in Responses
    /\ rpc = "start"
    /\ parsed = [status |-> "none", msg |-> ZeroMessage]

ParseIdle ==
    /\ response = <<>>
    /\ rpc = "idle"
    /\ parsed = [status |-> "none", msg |-> ZeroMessage]

\* commitMsg, err := parseCommitMessage(response, diffInfo)
ParseCommitMessage ==
    /\ UNCHANGED <<procVars, promptVars, runVars>>
    /\ rpc = "start"
    /\ parsed' = parseCommitMessage(response, diff.segs)
    /\ rpc' = "parsed"
    /\ UNCHANGED response

--------------------------------------------------------------------------
(* The run: generateCommitMessage of main, and GenerateCommitMessage with  *)
(* the backend of the build.  callLlamaCpp appears here by what it hands   *)
(* back (a text, or the timeout or start error); its threads are the       *)
(* subject of SpecProc.                                                    *)

\* the most tokens a response has in a run
MaxRunResp == 2

RunResponses == UNION {[1..n -> Alphabet] : n \in 0..MaxRunResp}

\* the working tree: nothing, untracked files only, one small file, three
\* large ones
RunDiffs ==
    {[pre |-> 0, segs |-> <<>>], [pre |-> 7, segs |-> <<>>],
     [pre |-> 0, segs |-> <<100>>], [pre |-> 0, segs |-> <<4000, 4000, 4000>>]}

Formats == {"text", "json", "conventional", "xml"}

\* FormatCommitMessage: the formats of its switch
Supported(f) == f \in {"text", "json", "conventional"}

NoRet == [text |-> <<>>, err |-> "none"]

NoGen == [kind |-> "none", err |-> "none"]

NoBody == [transport |-> "none", json |-> "none", error |-> "", content |-> <<>>]

NoExit == [by |-> "none", code |-> 0]

\* what client.Do and the decoder can meet: no answer, an answer that is
\* not JSON, or a decoded body with its error field and message content
Bodies ==
    {[transport |-> "fail", json |-> "none", error |-> "", content |-> <<>>],
     [transport |-> "ok", json |-> "bad", error |-> "", content |-> <<>>]}
    \cup [transport : {"ok"}, json : {"ok"}, error : {"", "boom"},
          content : RunResponses]

\* a non-empty error field that leaves the content unread only when there
\* is no content
ApiErrorWithoutContent(b) == b.error # "" /\ b.content = <<>>

\* ollamaResp.Error != ""
HasApiError(b) == b.error # ""

callOllama(b) ==
    IF b.transport # "ok" THEN [text |-> <<>>, err |-> "send"]
    ELSE IF b.json # "ok" THEN [text |-> <<>>, err |-> "decode"]
    ELSE IF HasApiError(b) THEN [text |-> <<>>, err |-> "api"]
    ELSE [text |-> b.content, err |-> "nil"]

\* the test of the file list inverted: len(diffInfo.Files) != 0
NoChangesFilesListed(d, f) == RawLen(d) = 0 /\ f # 0

\* diffInfo.RawDiff == "" && len(diffInfo.Files) == 0
NoChanges(d, f) == RawLen(d) = 0 /\ f = 0

RunInit ==
    /\ opc = "start"
    /\ variant \in {"proc", "http"}
    /\ onlyPrompt \in BOOLEAN
    /\ autoCommit \in BOOLEAN
    /\ format \in Formats
    /\ files \in {0, 1}
    /\ body = NoBody
    /\ callRet = NoRet
    /\ genRet = NoGen
    /\ invoked = {}
    /\ exit = NoExit
    /\ diff \in RunDiffs
    /\ budget = (IF variant = "proc" THEN MaxDiffLengthProc ELSE MaxDiffLengthHTTP)
    /\ ppc = "idle"
    /\ prompt = <<>>
    /\ quotaPerFile = 0
    /\ iters = <<>>

RunIdle ==
    /\ opc = "idle"
    /\ variant = "proc"
    /\ onlyPrompt = FALSE
    /\ autoCommit = FALSE
    /\ format = "text"
    /\ files = 0
    /\ body = NoBody
    /\ callRet = NoRet
    /\ genRet = NoGen
    /\ invoked = {}
    /\ exit = NoExit

\* os.Exit(code) in function `by`, or a panic nobody recovers (status 2)
Exits(by, code) ==
    /\ exit' = [by |-> by, code |-> code]
    /\ opc' = "exited"

\* diffInfo, err := gitClient.GetCurrentDiff(stagedOnly), and the check for
\* changes
GetCurrentDiff ==
    /\ opc = "start"
    /\ \E ok \in BOOLEAN :
          IF ~ok THEN Exits("generateCommitMessage", 1)
          ELSE IF NoChanges(diff, files)
               THEN Exits("generateCommitMessage", 0)
               ELSE opc' = "generate" /\ UNCHANGED exit
    /\ UNCHANGED <<variant, onlyPrompt, autoCommit, format, files, body,
                   callRet, genRet, invoked>>
    /\ UNCHANGED <<procVars, promptVars, parseVars>>

\* GenerateCommitMessage: prompt := buildDiffPrompt(diffInfo)
GenBuildPrompt ==
    /\ opc = "generate"
    /\ invoked' = invoked \cup {"buildDiffPrompt"}
    /\ prompt' = buildDiffPrompt(diff, budget)
    /\ opc' = "call"
    /\ UNCHANGED <<variant, onlyPrompt, autoCommit, format, files, body,
                   callRet, genRet, exit>>
    /\ UNCHANGED <<budget, diff, ppc, quotaPerFile, iters>>
    /\ UNCHANGED <<procVars, parseVars>>

\* response, err := c.callLlamaCpp(prompt, onlyPrompt)
CallLlamaCpp ==
    /\ opc = "call"
    /\ variant = "proc"
    /\ invoked' = invoked \cup {"backend"}
    /\ IF onlyPrompt
       THEN /\ Exits("callLlamaCpp", 1)
            /\ UNCHANGED callRet
       ELSE /\ \/ \E e \in {"pipe", "start"} :
                     callRet' = [text |-> <<>>, err |-> e]
               \/ \E txt \in RunResponses, e \in {"nil", "timeout"} :
                     callRet' = [text |-> txt, err |-> e]
            /\ opc' = "called"
            /\ UNCHANGED exit
    /\ UNCHANGED <<variant, onlyPrompt, autoCommit, format, files, body, genRet>>
    /\ UNCHANGED <<procVars, promptVars, parseVars>>

\* response, err := c.callOllama(prompt)
CallOllama ==
    /\ opc = "call"
    /\ variant = "http"
    /\ invoked' = invoked \cup {"backend"}
    /\ \E b \in Bodies :
          /\ body' = b
          /\ callRet' = callOllama(b)
    /\ opc' = "called"
    /\ UNCHANGED <<variant, onlyPrompt, autoCommit, format, files, genRet, exit>>
    /\ UNCHANGED <<procVars, promptVars, parseVars>>

\* GenerateCommitMessage: if err != nil { return nil, err }
GenReturnError ==
    /\ opc = "called"
    /\ callRet.err # "nil"
    /\ genRet' = [kind |-> "error", err |-> callRet.err]
    /\ opc' = "returned"
    /\ UNCHANGED <<variant, onlyPrompt, autoCommit, format, files, body,
                   callRet, invoked, exit>>
    /\ UNCHANGED <<procVars, promptVars, parseVars>>

\* GenerateCommitMessage: commitMsg, err := parseCommitMessage(response,
\* diffInfo), and its return
GenParse ==
    /\ opc = "called"
    /\ callRet.err = "nil"
    /\ invoked' = invoked \cup {"parseCommitMessage"}
    /\ response' = callRet.text
    /\ parsed' = parseCommitMessage(callRet.text, diff.segs)
    /\ IF parsed'.status = "panic"
       THEN /\ Exits("parseCommitMessage", 2)
            /\ UNCHANGED genRet
       ELSE /\ genRet' = [kind |-> "message", err |-> "nil"]
            /\ opc' = "returned"
            /\ UNCHANGED exit
    /\ UNCHANGED <<variant, onlyPrompt, autoCommit, format, files, body, callRet>>
    /\ UNCHANGED rpc
    /\ UNCHANGED <<procVars, promptVars>>

\* generateCommitMessage: the check of GenerateCommitMessage's error
CheckGenerated ==
    /\ opc = "returned"
    /\ IF genRet.kind = "error"
       THEN Exits("generateCommitMessage", 1)
       ELSE opc' = "format" /\ UNCHANGED exit
    /\ UNCHANGED <<variant, onlyPrompt, autoCommit, format, files, body,
                   callRet, genRet, invoked>>
    /\ UNCHANGED <<procVars, promptVars, parseVars>>

\* output, err := summarizerClient.FormatCommitMessage(commitMsg, format)
FormatCommitMessage ==
    /\ opc = "format"
    /\ invoked' = invoked \cup {"formatter"}
    /\ IF ~Supported(format)
       THEN Exits("generateCommitMessage", 1)
       ELSE /\ opc' = (IF autoCommit THEN "commit" ELSE "done")
            /\ UNCHANGED exit
    /\ UNCHANGED <<variant, onlyPrompt, autoCommit, format, files, body,
                   callRet, genRet>>
    /\ UNCHANGED <<procVars, promptVars, parseVars>>

\* if autoCommit: the conventional message and git commit
GitCommit ==
    /\ opc = "commit"
    /\ invoked' = invoked \cup {"formatter", "gitCommit"}
    /\ \E ok \in BOOLEAN :
          IF ok THEN opc' = "done" /\ UNCHANGED exit
          ELSE Exits("generateCommitMessage", 1)
    /\ UNCHANGED <<variant, onlyPrompt, autoCommit, format, files, body,
                   callRet, genRet>>
    /\ UNCHANGED <<procVars, promptVars, parseVars>>

--------------------------------------------------------------------------
(* Specifications                                                          *)

ProcNext ==
    \/ ChildEmit
    \/ ChildExit
    \/ DeadlineFires
    \/ CtxKill
    \/ DrainScan
    \/ DrainSelect
    \/ DrainWrite
    \/ DrainCheck
    \/ MainWait
    \/ MainCheck
    \/ MainRead

InitProc == ProcInit /\ PromptIdle /\ ParseIdle /\ RunIdle

InitPrompt == PromptInit /\ ProcIdle /\ ParseIdle /\ RunIdle

InitParse == ParseInit /\ ProcIdle /\ PromptIdle /\ RunIdle

\* callLlamaCpp, every interleaving
SpecProc == InitProc /\ [][ProcNext]_vars

\* callLlamaCpp where the timer fires and every thread keeps being scheduled
FairSpecProc ==
    /\ SpecProc
    /\ WF_vars(DeadlineFires)
    /\ WF_vars(CtxKill)
    /\ WF_vars(MainWait)
    /\ WF_vars(MainCheck)
    /\ WF_vars(MainRead)

\* buildDiffPrompt on every diff of DiffInputs, for both budgets
SpecPrompt == InitPrompt /\ [][BuildDiffPrompt]_vars

\* parseCommitMessage on every response of Responses
SpecParse == InitParse /\ [][ParseCommitMessage]_vars

RunNext ==
    \/ GetCurrentDiff
    \/ GenBuildPrompt
    \/ CallLlamaCpp
    \/ CallOllama
    \/ GenReturnError
    \/ GenParse
    \/ CheckGenerated
    \/ FormatCommitMessage
    \/ GitCommit

InitRun == RunInit /\ ProcIdle /\ ParseIdle

\* a run of the tool, for both backends and every flag
SpecRun == InitRun /\ [][RunNext]_vars

--------------------------------------------------------------------------
(* Properties of callLlamaCpp                                              *)

Returned == mpc = "returned"

NoStop == \A i \in 1..Len(script) : ~IsStop(i)

\* the goroutine has appended a line that holds the stop marker
StopAppended == \E i \in 1..Len(builder) : IsStop(builder[i])

\* s is the first lines of t
IsPrefix(s, t) == Len(s) <= Len(t) /\ s = SubSeq(t, 1, Len(s))

\* C1: once the drain goroutine has consumed a line with the stop marker,
\* the text callLlamaCpp returns ends with that line: it is the child's
\* output up to and including the first stop line.
C1_TextEndsAtSentinel ==
    (Returned /\ StopAppended) =>
        /\ retText # <<>>
        /\ Last(retText) \in 1..Len(script)
        /\ IsStop(Last(retText))
        /\ retText = UpTo(Last(retText))

\* C2: for a child that never exits and never writes the stop marker,
\* callLlamaCpp returns a timeout error with the text captured so far: the
\* child's first lines, as many as the builder holds give or take the line
\* being written.
C2_TimeoutReturnsCaptured ==
    (Returned /\ mode = "hang" /\ NoStop) =>
        /\ retErr = "timeout"
        /\ \E n \in 0..Len(script) :
              /\ retText = UpTo(n)
              /\ n >= Len(builder) - 1
              /\ n <= Len(builder) + 1

\* C3: when the child exits on its own, without the stop marker and with no
\* deadline passing during the call, the returned text holds every line the
\* child wrote.
C3_AllLinesReturned ==
    (Returned /\ childEnd \in {"exit0", "exit1"} /\ NoStop /\ ctx = "canceled")
        => retText = UpTo(Len(script))

\* C4: the invoking thread reads outputBuilder only after the drain
\* goroutine's last append: the read does not fall inside a WriteString,
\* and nothing is appended once callLlamaCpp has read and returned.
C4_ReadAfterLastAppend ==
    [][/\ (mpc = "read" /\ mpc' = "returned") => dpc # "writing"
       /\ Returned => builder' = builder]_vars

\* C5: a child killed for the stop marker gives a nil error; a timeout
\* error is never the outcome of a kill for the stop marker.
C5_SentinelKillIsNoError ==
    Returned =>
        /\ childEnd = "sentinelKill" => retErr = "nil"
        /\ retErr = "timeout" => childEnd # "sentinelKill"

\* With C1: when it is the goroutine's Kill that ends the child, the read
\* comes after the goroutine's last append and the text ends at the stop
\* line (the failures of C1 are the runs where the child had ended before).
SentinelKillEndsText ==
    (Returned /\ childEnd = "sentinelKill") =>
        /\ readDpc = "done"
        /\ retText # <<>>
        /\ Last(retText) \in 1..Len(script)
        /\ IsStop(Last(retText))
        /\ retText = UpTo(Last(retText))

\* With C2: under FairSpecProc the call to a child that never exits and
\* never writes the stop marker returns, and with the timeout error.
HangingChildTimesOut ==
    (mode = "hang" /\ NoStop) ~> (Returned /\ retErr = "timeout")

--------------------------------------------------------------------------
(* Properties of buildDiffPrompt                                           *)

Built == ppc = "built"

OverBudget == RawLen(diff) > budget

\* the per-file segments of the diff, counted on the diff itself: one per
\* "diff --git", and the text before the first one if there is any
FileCount(d) == Len(d.segs) + (IF d.pre > 0 THEN 1 ELSE 0)

\* the byte ranges of those segments
SegRanges(d) ==
    {Range(SegStart(d, i), SegStart(d, i) + d.segs[i]) : i \in 1..Len(d.segs)}
        \cup (IF d.pre > 0 THEN {Range(0, d.pre)} ELSE {})

\* the positions of the per-file sections of a prompt
Sections(p) == {i \in 1..Len(p) : p[i].k = "file"}

\* the closing fence of the section at i
FenceAfter(p, i) ==
    CHOOSE j \in (i + 1)..Len(p) :
        p[j].k = "fence" /\ \A m \in (i + 1)..(j - 1) : p[m].k # "fence"

\* what the section at i holds between its header and its closing fence
Excerpt(p, i) == SubSeq(p, i + 1, FenceAfter(p, i) - 1)

TokLen(t) ==
    IF t.k = "text" THEN t.hi - t.lo
    ELSE IF t.k = "marker" THEN MarkerLen ELSE 0

ExcerptLen(p, i) ==
    LET e == Excerpt(p, i) IN SumSeq([j \in 1..Len(e) |-> TokLen(e[j])])

RECURSIVE SumOver(_, _)
SumOver(p, S) ==
    IF S = {} THEN 0
    ELSE LET i == CHOOSE x \in S : TRUE
         IN  ExcerptLen(p, i) + SumOver(p, S \ {i})

HasMarker(p, i) == \E j \in 1..Len(Excerpt(p, i)) : Excerpt(p, i)[j].k = "marker"

\* C6: a diff no longer than the budget (boundary included) is embedded
\* whole and unmodified in one fenced block, with no per-file section.
C6_SmallDiffVerbatim ==
    (Built /\ RawLen(diff) <= budget) =>
        prompt = <<Lit("intro"), Lit("fullOpen"), Text(0, RawLen(diff)),
                   Lit("fence"), Lit("schema")>>

C6_Witness ==
    /\ Built
    /\ RawLen(diff) = budget
    /\ Len(diff.segs) >= 2
    /\ prompt[3] = Text(0, budget)

\* C7: for a diff over the budget the quota is max(budget / fileCount, 500),
\* fileCount being the number of per-file segments, and the prompt holds at
\* most 10 per-file sections.
C7_QuotaAndTenSections ==
    (Built /\ OverBudget) =>
        /\ quotaPerFile = Max(budget \div FileCount(diff), 500)
        /\ Cardinality(Sections(prompt)) <= 10

C7_Witness ==
    /\ Built
    /\ OverBudget
    /\ FileCount(diff) > 10
    /\ budget \div FileCount(diff) < 500
    /\ quotaPerFile = 500
    /\ Cardinality(Sections(prompt)) = 10

\* the diff of three files of 4000 bytes each
ThreeFiles == [pre |-> 0, segs |-> <<4000, 4000, 4000>>]

\* C8: every emitted excerpt (head, truncation marker and tail, or the whole
\* segment) is no longer than the allowance of its file, which is at most
\* the quota; the excerpts together are at most budget + 100 per section;
\* for three files of 4000 and budget 3000 the quota is 1000 and every
\* section is at most 1000 long and holds the marker.
C8_ExcerptWithinAllowance ==
    (Built /\ OverBudget) =>
        /\ \A i \in Sections(prompt) :
              /\ ExcerptLen(prompt, i) <= prompt[i].avail
              /\ prompt[i].avail <= quotaPerFile
        /\ SumOver(prompt, Sections(prompt))
              <= budget + FileOverhead * Cardinality(Sections(prompt))
        /\ (diff = ThreeFiles /\ budget = 3000) =>
              /\ quotaPerFile = 1000
              /\ \A i \in Sections(prompt) :
                    ExcerptLen(prompt, i) <= 1000 /\ HasMarker(prompt, i)

\* C9: a truncated section is a non-empty prefix of its segment, the
\* marker, and a non-empty suffix of its segment; a diff of one oversized
\* segment gets exactly one section, and that one is truncated.
C9_HeadMarkerTail ==
    (Built /\ OverBudget) =>
        /\ \A i \in Sections(prompt) :
              HasMarker(prompt, i) =>
                 LET e   == Excerpt(prompt, i)
                     seg == Range(prompt[i].lo, prompt[i].hi)
                 IN  /\ seg \in SegRanges(diff)
                     /\ Len(e) = 3
                     /\ e[1].k = "text" /\ e[2].k = "marker" /\ e[3].k = "text"
                     /\ e[1].lo = seg.lo /\ e[1].hi > seg.lo /\ e[1].hi < seg.hi
                     /\ e[3].hi = seg.hi /\ e[3].lo < seg.hi /\ e[3].lo > seg.lo
        /\ FileCount(diff) = 1 =>
              /\ Cardinality(Sections(prompt)) = 1
              /\ \A i \in Sections(prompt) : HasMarker(prompt, i)

C9_Witness ==
    /\ Built
    /\ OverBudget
    /\ FileCount(diff) = 1
    /\ \E i \in Sections(prompt) :
          /\ HasMarker(prompt, i)
          /\ Excerpt(prompt, i)[1].hi > Excerpt(prompt, i)[1].lo
          /\ Excerpt(prompt, i)[3].hi > Excerpt(prompt, i)[3].lo

\* what the iterations write to sb, in order
RECURSIVE ItersTokens(_)
ItersTokens(its) ==
    IF its = <<>> THEN <<>>
    ELSE LET it == its[1]
         IN  (IF it.branch \in {"tenFiles", "tooSmall"}
              THEN <<>>
              ELSE FileSection(it.fd, it.avail)) \o
             (IF it.notice THEN <<Lit("omitted")>> ELSE <<>>) \o
             ItersTokens(Tail(its))

\* the iterations recorded and the prompt built are the same run of the
\* loop
ItersAgreeWithPrompt ==
    (Built /\ OverBudget) =>
        prompt = <<Lit("intro"), Lit("summaryOpen")>> \o ItersTokens(iters)
                    \o <<Lit("schema")>>

Emitted(it) == it.branch \in {"whole", "headTail", "headOnly"}

\* C16: in the over-budget branch, at the start of every iteration
\* totalUsed < budget; an emitted section's allowance satisfies
\* 300 <= availableChars <= quotaPerFile and availableChars <= budget -
\* totalUsed; so every truncated section has headLength > 0, tailLength > 0
\* and headLength + tailLength < the segment's length, and the head-only
\* branch is never taken.
C16_LoopInvariant ==
    (Built /\ OverBudget) =>
        \A k \in 1..Len(iters) :
            LET it == iters[k]
            IN  /\ it.totalUsed < budget
                /\ Emitted(it) =>
                      /\ 300 <= it.avail
                      /\ it.avail <= quotaPerFile
                      /\ it.avail <= budget - it.totalUsed
                /\ it.branch # "headOnly"
                /\ it.branch = "headTail" =>
                      /\ it.head > 0
                      /\ it.tail > 0
                      /\ it.head + it.tail < RangeLen(it.fd)

\* a later iteration whose allowance is what is left of the budget, less
\* than the quota, and whose section is truncated
C16_Witness ==
    /\ Built
    /\ OverBudget
    /\ \E k \in 2..Len(iters) :
          /\ iters[k].branch = "headTail"
          /\ iters[k].totalUsed > 0
          /\ iters[k].avail < quotaPerFile
          /\ iters[k].avail = budget - iters[k].totalUsed

\* the "remaining files omitted" notices of a prompt
Notices(p) == {i \in 1..Len(p) : p[i].k = "omitted"}

\* C17: the "remaining files omitted" notice appears at most once, and only
\* when at least one per-file segment of the diff was left out of the
\* output; when every segment has its section no notice is written.
C17_NoticeOnlyWhenOmitted ==
    Built =>
        /\ Cardinality(Notices(prompt)) <= 1
        /\ Notices(prompt) # {} =>
              Cardinality(Sections(prompt)) < FileCount(diff)

\* With C17: the notice is never written twice, and it is always written
\* when a segment is left out.
NoticeAtMostOnce ==
    Built =>
        /\ Cardinality(Notices(prompt)) <= 1
        /\ (OverBudget /\ Cardinality(Sections(prompt)) < FileCount(diff)) =>
              Notices(prompt) # {}

--------------------------------------------------------------------------
(* Properties of parseCommitMessage                                        *)

Parsed == rpc = "parsed"

OpenAt(resp) == {i \in 1..Len(resp) : HasOpen(resp[i])}

CloseAt(resp) == {i \in 1..Len(resp) : HasClose(resp[i])}

\* the tokens from the first "{" to the last "}" of the response
Enclosed(resp) ==
    LET s == CHOOSE i \in OpenAt(resp) : \A j \in OpenAt(resp) : i <= j
        e == CHOOSE i \in CloseAt(resp) : \A j \in CloseAt(resp) : i >= j
    IN  SubSeq(resp, s, e)

SchemaKeys == {"type", "scope", "subject", "body", "breaking_changes"}

\* the text from the first "{" to the last "}" is one JSON object of the
\* commit schema: members separated by commas, every schema key with a
\* value of its kind
WellFormed(resp) ==
    /\ OpenAt(resp) # {}
    /\ CloseAt(resp) # {}
    /\ LET o == Enclosed(resp)
       IN  /\ Len(o) >= 2
           /\ o[1] = LB
           /\ o[Len(o)] = RB
           /\ \A i \in 2..(Len(o) - 1) :
                 IF i % 2 = 0
                 THEN /\ o[i].t = "pair"
                      /\ o[i].key \in SchemaKeys
                      /\ o[i].kind = (IF o[i].key = "breaking_changes"
                                      THEN "bool" ELSE "string")
                      /\ (i + 1 = Len(o) \/ o[i + 1] = Comma)
                 ELSE o[i] = Comma /\ i + 1 < Len(o)

\* the value the object gives a key (its last member of that key), or none
ValueOf(resp, key, none) ==
    LET o == Enclosed(resp)
        S == {i \in 1..Len(o) : o[i].t = "pair" /\ o[i].key = key}
    IN  IF S = {} THEN none
        ELSE o[CHOOSE i \in S : \A j \in S : i >= j].val

\* C10: when the text from the first "{" to the last "}" is a well-formed
\* object of the schema, parseCommitMessage succeeds whatever surrounds it,
\* and type, scope, subject and body are the object's values (empty when
\* absent), breaking_changes false when absent.
C10_FieldsFromObject ==
    (Parsed /\ WellFormed(response)) =>
        /\ parsed.status = "ok"
        /\ parsed.msg.Type = ValueOf(response, "type", "")
        /\ parsed.msg.Scope = ValueOf(response, "scope", "")
        /\ parsed.msg.Subject = ValueOf(response, "subject", "")
        /\ parsed.msg.Body = ValueOf(response, "body", "")
        /\ parsed.msg.BreakingChanges
              = (ValueOf(response, "breaking_changes", "false") = "true")

C10_Witness ==
    /\ Parsed
    /\ WellFormed(response)
    /\ response[1] = Noise
    /\ Last(response) = Noise
    /\ parsed.status = "ok"
    /\ parsed.msg.Type = "feat"
    /\ parsed.msg.Subject = ""
    /\ parsed.msg.BreakingChanges = FALSE

\* the response has no "{", or no "}", or its last "}" comes before its
\* first "{" (a brace of token i is byte 2i or 2i + 1, so the order of the
\* bytes is the order of the tokens; "{" and "}" of one token are in order)
NoObjectText(resp) ==
    \/ OpenAt(resp) = {}
    \/ CloseAt(resp) = {}
    \/ \A e \in CloseAt(resp) : \A s \in OpenAt(resp) : e < s

\* C11: for a response with no "{", or no "}", or whose last "}" is at or
\* before its first "{", parseCommitMessage returns a
\* structured-output-missing error to its caller and no CommitMessage.
C11_MissingBracesReturnError ==
    (Parsed /\ NoObjectText(response)) =>
        /\ parsed.status = "missingError"
        /\ parsed.msg = ZeroMessage

\* With C11: what the code does on such a response is panic.
MissingBracesPanic ==
    (Parsed /\ NoObjectText(response)) => parsed.status = "panic"

\* the text from the first "{" to the last "}" exists and is not a JSON
\* object that decodes into CommitMessage: it starts or ends inside a
\* string value, its members and commas are out of place, or a member of a
\* schema key has a value of another kind
Undecodable(resp) ==
    /\ ~NoObjectText(resp)
    /\ LET o == Enclosed(resp)
       IN  \/ o[1] # LB
           \/ o[Len(o)] # RB
           \/ \E i \in 2..(Len(o) - 1) :
                 \/ i % 2 = 0 /\ o[i].t # "pair"
                 \/ i % 2 = 1 /\ (o[i] # Comma \/ i + 1 = Len(o))
                 \/ /\ o[i].t = "pair"
                    /\ o[i].key \in SchemaKeys
                    /\ o[i].kind # (IF o[i].key = "breaking_changes"
                                    THEN "bool" ELSE "string")

\* C12: for a response whose text from the first "{" to the last "}" cannot
\* be decoded as the commit schema (malformed JSON, a value of the wrong
\* type), parseCommitMessage returns a structured-output-invalid error to
\* its caller and no CommitMessage.
C12_UndecodableReturnError ==
    (Parsed /\ Undecodable(response)) =>
        /\ parsed.status = "invalidError"
        /\ parsed.msg = ZeroMessage

\* With C12: what the code does on such a response is panic, and on every
\* other response with an object text it returns a message.
UndecodablePanic ==
    Parsed => (Undecodable(response) <=> (~NoObjectText(response)
                                          /\ parsed.status = "panic"))

--------------------------------------------------------------------------
(* Properties of a run                                                     *)

Exited == opc = "exited"

\* GenerateCommitMessage has been entered
Generating == "buildDiffPrompt" \in invoked

\* C13: no core component (buildDiffPrompt, callLlamaCpp / callOllama,
\* parseCommitMessage, GenerateCommitMessage) ends the process: only
\* generateCommitMessage of main does, and once GenerateCommitMessage has
\* been entered the process ends only after it has returned a CommitMessage
\* or an error, prompt-only mode and unparsable output included.
C13_OnlyOrchestratorExits ==
    /\ exit.by \in {"none", "generateCommitMessage"}
    /\ (Exited /\ Generating) => genRet.kind \in {"message", "error"}

\* With C13: the core components that end the process are callLlamaCpp in
\* prompt-only mode (os.Exit(1)) and parseCommitMessage on a response it
\* cannot decode (panic); callOllama and buildDiffPrompt never do.
CoreExits ==
    /\ exit.by \in {"none", "generateCommitMessage", "callLlamaCpp",
                    "parseCommitMessage"}
    /\ exit.by = "callLlamaCpp" => (variant = "proc" /\ onlyPrompt /\ exit.code = 1)
    /\ exit.by = "parseCommitMessage" =>
          (parsed.status = "panic" /\ callRet.err = "nil" /\ exit.code = 2)
    /\ (Exited /\ Generating /\ exit.by = "generateCommitMessage") =>
          genRet.kind \in {"message", "error"}

\* C14: when the diff has no content (empty raw diff, no changed file),
\* generateCommitMessage stops before a prompt is built: buildDiffPrompt,
\* the backend, parseCommitMessage, the formatter and git commit are never
\* invoked, and the run ends in generateCommitMessage itself.
C14_EmptyChangesetStops ==
    (opc # "idle" /\ RawLen(diff) = 0 /\ files = 0) =>
        /\ invoked = {}
        /\ opc \in {"start", "exited"}
        /\ Exited => exit.by = "generateCommitMessage"

C14_Witness ==
    /\ RawLen(diff) = 0
    /\ files = 0
    /\ Exited
    /\ exit = [by |-> "generateCommitMessage", code |-> 0]
    /\ invoked = {}

\* C15: in the HTTP backend, when the decoded body carries a non-empty
\* error field, callOllama returns an error and no text, whatever message
\* content the body also carries, and GenerateCommitMessage returns that
\* error without calling parseCommitMessage.
C15_ErrorFieldIsBackendFailure ==
    (variant = "http" /\ body.json = "ok" /\ body.error # "") =>
        /\ callRet = [text |-> <<>>, err |-> "api"]
        /\ "parseCommitMessage" \notin invoked
        /\ opc \in {"called", "returned", "exited"}
        /\ opc \in {"returned", "exited"} =>
              genRet = [kind |-> "error", err |-> "api"]
        /\ Exited => exit = [by |-> "generateCommitMessage", code |-> 1]

C15_Witness ==
    /\ variant = "http"
    /\ body.json = "ok"
    /\ body.error # ""
    /\ body.content # <<>>
    /\ opc = "returned"
    /\ genRet = [kind |-> "error", err |-> "api"]
    /\ callRet.text = <<>>

==========================================================================
